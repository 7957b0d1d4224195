\* Three purchases of two customers, two names, host names and allocations.

CONSTANTS
    ann = ann
    bob = bob
    Customer = {ann, bob}
    Purchase <- MCPurchase
    Owner <- MCOwner
    Name = {alpha, beta}
    Host = {north, south}
    Allocation <- MCAllocation
    None = None
    Trouble = {"lost", "ends", "reopen", "edit", "removed"}
    MaxKinds = 2

SPECIFICATION Spec

INVARIANTS
    TypeOK
    OwnAccount
    ClaimsAreExclusive
    OneNameOneCustomer
    MailedLoginWorks

\* Everything may have been bought, set up and released.
CHECK_DEADLOCK FALSE
