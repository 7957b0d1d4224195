\* Everything that can happen to one purchase.  The admin edits it freely, also while
\* its job waits or runs, and the customer submits again what the edit has cleared;
\* create requests land after they were given up: two edits, two iterations, two
\* requests given up, one recovery, one crash or failed transaction.
CONSTANTS
    Purchase = {p1}
    Slot = {s1}
    NoSlot = NoSlot
    NoPurchase = NoPurchase
    Worker = {w1, w2}
    Repeat = {}
    MaxAutoRetries = 1
    MaxRecoveries = 1
    MaxOverrides = 2
    MaxUnanswered = 2
    MaxFaults = 1

SPECIFICATION FairSpec

INVARIANTS
    ServersAreAccountedFor
    
    LinkageIsBacked

PROPERTIES
    KeepsContract
    JobSettlesWithoutFault

\* Every bound may be used up.
CHECK_DEADLOCK FALSE
