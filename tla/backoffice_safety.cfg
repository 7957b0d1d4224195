\* Three requests of any kind about two plans.

CONSTANTS
    paper = paper
    draft = draft
    t1 = t1
    t2 = t2
    a1 = a1
    s1 = s1
    b1 = b1
    g1 = g1
    c1 = c1
    Request <- MCRequest
    Nobody = Nobody
    Ticket = {t1, t2}
    Desk = {a1}
    Save = {s1}
    Patch = {b1}
    Retarget = {g1}
    Checkout = {c1}
    Category = {"service_not_ready", "other"}
    Plan = {paper, draft}
    Launch = paper
    LaunchSlots = 1
    Orders <- MCOrders
    Keep = Keep
    Seed = Seed
    MaxRequests = 3
    Trouble = {"mixed", "crash", "double"}
    MaxKinds = 1

SPECIFICATION Spec

INVARIANTS
    TypeOK
    EveryTransactionEnds
    AnsweredIsKept
    CatalogAgrees

SYMMETRY Symmetry

\* The requests come to an end.
CHECK_DEADLOCK FALSE
