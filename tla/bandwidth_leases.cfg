SPECIFICATION Spec
CONSTANTS
    Transfers = {x1, x2, x3}
    IPs = {a, b, c}
    Buckets = {b1, b2, b3, b4, b5, b6, b7}
    Global = Global
    None = None
    MaximumTracked = 2
    CleanupAfter = 3
    Quantum = 1
    Desired = {}
    GlobalCost = 0
    ClientCost = 1
    GlobalBurst = 2
    ClientBurst = 2
    Horizon = 0
SYMMETRY Symmetry
INVARIANTS LeasesShared TrackedBound
