SPECIFICATION Spec
CONSTANTS
    c1 = c1
    c2 = c2
    Client <- TwoClients
    CursorAgent = TRUE
    MayEscalate = FALSE
    MaxMessages = 3
    MaxTimers = 1
    MaxFaults = 1
INVARIANTS
    TypeOK
    NoSleepOverMail
    ReadOnce
SYMMETRY Symmetry
