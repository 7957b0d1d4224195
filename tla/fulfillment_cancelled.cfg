\* One slot, two customers: the first cancels while its job is running and the
\* second takes the slot that was set free.
CONSTANTS
    Purchase = {p1, p2}
    Slot = {s1}
    NoSlot = NoSlot
    NoPurchase = NoPurchase
    Worker = {w1}
    Repeat = {}
    MaxAutoRetries = 1
    MaxRecoveries = 0
    MaxOverrides = 0
    MaxUnanswered = 0
    MaxFaults = 0

SPECIFICATION Spec

PROPERTIES
    CancellationBlocksFulfillment

CHECK_DEADLOCK FALSE
