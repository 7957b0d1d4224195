\* Two customers, one of them a repeat customer, compete for one slot while two
\* iterations race; one retry, one operator recovery, one crash or failed
\* transaction.  Free edits and late requests are in fulfillment_progress.
CONSTANTS
    Purchase = {p1, p2}
    Slot = {s1}
    NoSlot = NoSlot
    NoPurchase = NoPurchase
    Worker = {w1, w2}
    Repeat = {p2}
    MaxAutoRetries = 1
    MaxRecoveries = 1
    MaxOverrides = 0
    MaxUnanswered = 0
    MaxFaults = 1

SPECIFICATION Spec

INVARIANTS
    TypeOK
    LeaseIsHeld
    RetriesAreBounded
    ReadyIsLinkedAndVerified

SYMMETRY Symmetry

\* Every customer may be served and every bound used up.
CHECK_DEADLOCK FALSE
