\* Two renewals; one other mail, one rotation, one revocation, one failed delivery.

CONSTANTS
    Period = 2
    DefaultPeriod = 3
    Overlap = 1
    OtherMail = {ready}
    NoMail = NoMail
    MaxLinks = 3
    Trouble = {"rotate", "revoke", "failure", "late", "close"}
    MaxKinds = 1
    LastDay = 4

SPECIFICATION Spec

INVARIANTS
    TypeOK
    CustomerKeepsAccess

PROPERTIES
    DeadStaysDead

\* The clock stops on the last day.
CHECK_DEADLOCK FALSE
