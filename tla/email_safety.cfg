\* Two messages, two iterations that race, one fault (a crash or a failing statement).
CONSTANTS
    Message = {m1, m2}
    NoMessage = NoMessage
    Worker = {w1, w2}
    MaxAttempts = 2
    RecoveryLimit = 1
    MaxFaults = 1

SPECIFICATION FairSpec

INVARIANTS
    TypeOK
    CopiesAreBounded
    OneSenderAtATime
    SentWasAccepted

PROPERTIES
    FailsClosed
    KeepsPromise
    MessageSettles
