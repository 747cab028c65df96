SPECIFICATION Spec
CONSTANTS
    t1 = t1
    t2 = t2
    t3 = t3
    h1 = h1
    h2 = h2
    h3 = h3
    g1 = g1
    g2 = g2
    Task <- TwoTasks
    DependsOn <- Alone
    Handle <- ThreeHandles
    Running <- FirstHandle
    Gate <- OneGate
    MaxDispatch = 5
    MaxFailures = 9
    MaxConcurrent = 1
    HasWorktree = FALSE
    Headless = FALSE
    MaxFaults = 1
    MaxSent = 2
    MaxCalls = 2
    May = {"escalate", "gateCreate", "resolve", "reresolve", "dispatch", "taskUpdate", "taskCreate"}
PROPERTIES
    CompletionIsEarned
SYMMETRY Symmetry
