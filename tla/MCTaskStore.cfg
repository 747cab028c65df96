\* Every caller, every method: the store's own guarantees.
SPECIFICATION StoreSpec
CONSTANTS
    t1 = t1
    t2 = t2
    h1 = h1
    h2 = h2
    g1 = g1
    Task <- MCTask
    Handle <- MCHandle
    Gate <- MCGate
    MaxDispatch = 2
    MaxFailures = 3
INVARIANTS
    StoreTypeOK
    DispatchLock
    BreakerAgrees
PROPERTIES
    LeaseImplemented
