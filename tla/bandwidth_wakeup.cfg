SPECIFICATION Spec
CONSTANTS
    Transfers = {x1, x2}
    IPs = {a}
    Buckets = {b1, b2, b3, b4}
    Global = Global
    None = None
    MaximumTracked = 1
    CleanupAfter = 1
    Quantum = 2
    Desired = {3}
    GlobalCost = 1
    ClientCost = 1
    GlobalBurst = 2
    ClientBurst = 2
    Horizon = 2
INVARIANT ShutdownWakes
