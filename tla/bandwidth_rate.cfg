SPECIFICATION FairSpec
CONSTANTS
    Transfers = {x1, x2}
    IPs = {a}
    Buckets = {b1, b2, b3, b4}
    Global = Global
    None = None
    MaximumTracked = 1
    CleanupAfter = 1
    Quantum = 1
    Desired = {2}
    GlobalCost = 1
    ClientCost = 1
    GlobalBurst = 1
    ClientBurst = 1
    Horizon = 1
INVARIANT RateBound
PROPERTY AcquireReturns
