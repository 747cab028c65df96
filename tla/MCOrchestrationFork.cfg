SPECIFICATION Spec
CONSTANTS
    t1 = t1
    t2 = t2
    t3 = t3
    h1 = h1
    h2 = h2
    h3 = h3
    h4 = h4
    g1 = g1
    g2 = g2
    Task <- ThreeTasks
    DependsOn <- Fork
    Handle <- ThreeHandles
    Running <- FirstHandle
    Gate <- NoGates
    MaxDispatch = 6
    MaxFailures = 9
    MaxConcurrent = 1
    HasWorktree = FALSE
    Headless = FALSE
    MaxFaults = 2
    MaxSent = 3
    MaxCalls = 0
    May = {"escalate", "foreign", "stop"}
INVARIANTS
    TypeOK
    ActiveIsCurrent
    DependenciesFirst
    WithinConcurrency
    ExitFreesTerminal
PROPERTIES
    SettledIsFinal
    PlanImplemented
SYMMETRY Symmetry
