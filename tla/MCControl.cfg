SPECIFICATION Spec
CONSTANTS
    Call = {f, g, b, c}
    Background = {b, c}
    Concurrency = 2
    BackgroundConcurrency = 1
    Sub = {s, t}
    ById = {s}
    MaxAttempts = 2
    MayShut = TRUE
INVARIANTS TypeOK SlotsMatch AllReplayed NoOrphans
