CONSTANTS
    T1 = 1
    T2 = 2
    TimerB = 9
    TimerD = 2
    TimerM = 2
    MaxRSeq = 3
    Tags = {a, b}
    a = a
    b = b
    Faults = {"net", "transp", "transpErr"}
SPECIFICATION FairSpec
CHECK_DEADLOCK FALSE
INVARIANTS
    TypeOK
    TimeoutExact
    TimerCoversState
PROPERTIES
    ImplementsContract
    NoLeakedKeys
    RprInOrder
    UserNotLeftWaiting
