SPECIFICATION FairSpec
CONSTANTS
    MaxInvites = 3
    MaxFailing = 2
    MaxUpdates = 1
    MaxTerminates = 1
    Intervals = 2
    Faults = {"respond", "bye", "retransmit"}
INVARIANTS SessionTypeOK OfferIsOpen NoInviteForgotten EndIsReported
PROPERTIES RetransmitsItsOwn AckEndsRetransmission AckWaitEnds DelayedHandled
CHECK_DEADLOCK FALSE
