SPECIFICATION FairSpec
CONSTANTS
    c1 = c1
    c2 = c2
    Client <- OneClient
    CursorAgent = FALSE
    MayEscalate = TRUE
    MaxMessages = 2
    MaxTimers = 2
    MaxFaults = 1
INVARIANTS
    PushedInOrder
    DeliveredWasSubmitted
PROPERTIES
    NextIdleDelivers
