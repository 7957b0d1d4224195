\* The same with one crash or one failing transaction.
CONSTANTS
    Purchase = {p1}
    Slot = {s1}
    NoSlot = NoSlot
    NoPurchase = NoPurchase
    Worker = {w1}
    Repeat = {}
    MaxAutoRetries = 1
    MaxRecoveries = 1
    MaxOverrides = 0
    MaxUnanswered = 0
    MaxFaults = 1

SPECIFICATION FairSpec

PROPERTIES
    JobSettles

CHECK_DEADLOCK FALSE
