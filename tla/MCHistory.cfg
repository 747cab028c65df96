SPECIFICATION Spec
CONSTANTS
    MaxLives = 2
    MaxOutput = 3
    MaxTakes = 3
    PendingCap = 2
    LogCap = 2
    MaxFaults = 1
    May = {"mainCrash", "daemonCrash", "loseTake", "sleep", "close", "quit"}
INVARIANTS
    TypeOK
    NoOutputTwice
    
PROPERTIES
    QuitSavesAll
CHECK_DEADLOCK FALSE
