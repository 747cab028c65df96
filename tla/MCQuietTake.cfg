SPECIFICATION Spec
CONSTANTS
    MaxLives = 1
    MaxOutput = 2
    MaxTakes = 3
    PendingCap = 2
    LogCap = 2
    MaxFaults = 0
    May = {}
INVARIANTS
    LogIsByteExact
CHECK_DEADLOCK FALSE
