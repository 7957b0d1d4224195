\* Three customers compete for one slot with two handlers at a time; in every
\* behaviour there is at most one trouble, once, of any kind.
CONSTANTS
    Purchase = {p1, p2, p3}
    Slot = {s1}
    NoSlot = NoSlot
    Handler = {h1, h2}
    Trouble = {"lag", "reorder", "repeat", "overlap", "crash", "failure", "visit", "unpaid",
               "override"}
    MaxKinds = 1
    MaxMail = 3

SPECIFICATION Spec

INVARIANTS
    TypeOK
    NoSharedSlot
    EverySlotIsOwned
    HeldWhileSuspended
    FollowsStripe

PROPERTIES
    MovesForward

SYMMETRY Symmetry

\* Every slot may be sold and every subscription over.
CHECK_DEADLOCK FALSE
