SPECIFICATION FairSpec
CONSTANTS
    MaxRuns = 3
    MayReset = TRUE
    MayCrash = TRUE
INVARIANTS
    TypeOK
    OneRow
    StopReaches
    StoppedIsNotSuccess
PROPERTIES
    RecordIsFinal
    StopEndsLoop
