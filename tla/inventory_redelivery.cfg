\* Stripe delivers one event a second time.
CONSTANTS
    Purchase = {p1, p2, p3}
    Slot = {s1}
    NoSlot = NoSlot
    Handler = {h1}
    Trouble = {"repeat"}
    MaxKinds = 1
    MaxMail = 2

SPECIFICATION Spec

INVARIANTS
    OneOwnerPerSlot

CHECK_DEADLOCK FALSE
