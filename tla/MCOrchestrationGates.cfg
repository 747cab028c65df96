SPECIFICATION Spec
CONSTANTS
    t1 = t1
    t2 = t2
    t3 = t3
    h1 = h1
    h2 = h2
    h3 = h3
    g1 = g1
    g2 = g2
    Task <- TwoTasks
    DependsOn <- Chain
    Handle <- ThreeHandles
    Running <- FirstHandle
    Gate <- TwoGates
    MaxDispatch = 7
    MaxFailures = 9
    MaxConcurrent = 2
    HasWorktree = TRUE
    Headless = FALSE
    MaxFaults = 1
    MaxSent = 3
    MaxCalls = 0
    May = {"escalate", "gate", "resolve"}
INVARIANTS
    GateBlocksProgress
PROPERTIES
    PromotedWhenDue
SYMMETRY Symmetry
