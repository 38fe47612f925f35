\* A heartbeat beside analyses; a list shorter than the queue.
CONSTANTS
    Delivery = {d1, d2}
    Heartbeat = {h1}
    Analysis = {a1}
    MaxAttempts = 3
    ListLimit = 1
SPECIFICATION FairSpec
INVARIANTS
    TypeOK
    DeliveredWasReceived
    GivenUpWasTried
PROPERTY Settles
