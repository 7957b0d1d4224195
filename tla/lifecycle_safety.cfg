\* Two purchases that share the worker, one of which may meet trouble of one kind.
CONSTANTS
    Purchase = {1, 2}
    SubscriptionGracePeriod = 1
    SuspensionRetention = 3
    ReminderDelay = 1
    EscalationDelay = 2
    WarningWindow = {1, 2}
    WarningLimit = 1
    Trouble = {"lag", "repeat", "retry", "outage", "crowd", "visit", "edit", "unpaid"}
    Troubled = {1}
    MaxKinds = 1
    MaxMail = 3
    MaxChanges = 2
    LastSale = 1
    LastDay = 6

SPECIFICATION Spec

INVARIANTS
    TypeOK
    UnpaidIsSuspended
    PaymentRestores
    DeletionIsAnnounced
    EscalationFollowsReminder

PROPERTIES
    NothingBeforeItsTime

CHECK_DEADLOCK FALSE
