\* One purchase whose failed invoice Stripe may try to collect again and again.
CONSTANTS
    Purchase = {1}
    SubscriptionGracePeriod = 2
    SuspensionRetention = 3
    ReminderDelay = 1
    EscalationDelay = 2
    WarningWindow = {1, 2}
    WarningLimit = 1
    Trouble = {"retry"}
    Troubled = {1}
    MaxKinds = 1
    MaxMail = 2
    MaxChanges = 3
    LastSale = 1
    LastDay = 8

SPECIFICATION Spec

INVARIANTS
    GraceEnds

CHECK_DEADLOCK FALSE
